---- MODULE Spec2Model ----
(***************************************************************************)
(* Model of the back-testing engine backtester.run_backtest: the scan over *)
(* the signal table (one row per step), the forced closure after the last  *)
(* row and the metrics computed from the trade list.                       *)
(*                                                                         *)
(* Prices are positive integers, dates are day numbers, and the fractions  *)
(* take_profit and stop_loss are carried as whole percents, so that the     *)
(* float comparison  Close >= entry_price * (1 + take_profit)  is the       *)
(* integer comparison  Close * 100 >= entry_price * (100 + take_profit).    *)
(* The price set holds no value that sits exactly on a threshold, where a  *)
(* float product could round to the other side.  Ratios (P&L, returns,     *)
(* drawdown) are exact fractions <<n, d>> in lowest terms with d > 0.       *)
(***************************************************************************)
EXTENDS Integers, Sequences, FiniteSets, TLC

(***************************** bounds **************************************)
\* longest signal table handed to run_backtest
MaxLen == 3
\* largest trade_timeout_days tried
MaxTimeout == 3
\* longest signal table in the comparison of two runs
PairLen == 2
\* most tickers in one batch test
MaxTickers == 2
\* longest table of the runs on input run_backtest does not validate
CheckLen == 2

(************************* program constants *******************************)
FAST_PERIOD == 1
SLOW_PERIOD == 45
TRADE_TIMEOUT_DAYS == 60
TAKE_PROFIT_PCT == 20
STOP_LOSS_PCT == 5

TPSL == "Take Profit / Stop Loss"
REVERSE == "Reverse Crossover"

\* closes of the rows; 18 -> 20 is a gain inside the band, 20 -> 25 and
\* 18 -> 25 reach the take-profit, 20 -> 18, 25 -> 20 and 25 -> 18 the stop-loss
Closes == {18, 20, 25}
\* row['position']: 1 bullish cross, -1 bearish cross, 0 anything else (0.0, NaN)
Positions == {-1, 0, 1}
\* calendar days from one row to the next: the next day, or over a weekend
Gaps == {1, 3}
\* trade_timeout_days tried
Timeouts == 2..MaxTimeout
\* entry_date = None: no date of a table (dates start at day 1)
NoDate == 0

(***************************** fractions ***********************************)
Abs(x) == IF x < 0 THEN -x ELSE x

RECURSIVE GCD(_, _)
GCD(a, b) == IF b = 0 THEN a ELSE GCD(b, a % b)

\* the fraction n/d (d # 0) in lowest terms with a positive denominator
Frac(n, d) ==
    LET g == GCD(Abs(n), Abs(d))
        s == IF d < 0 THEN -1 ELSE 1
    IN  <<(s * n) \div g, (s * d) \div g>>

FMul(p, q) == Frac(p[1] * q[1], p[2] * q[2])
FDiv(p, q) == Frac(p[1] * q[2], p[2] * q[1])
FAdd(p, q) == Frac(p[1] * q[2] + q[1] * p[2], p[2] * q[2])
FSub(p, q) == Frac(p[1] * q[2] - q[1] * p[2], p[2] * q[2])
FLess(p, q) == p[1] * q[2] < q[1] * p[2]
FLeq(p, q) == p[1] * q[2] <= q[1] * p[2]
FMin(p, q) == IF FLess(q, p) THEN q ELSE p
FMax(p, q) == IF FLess(p, q) THEN q ELSE p
Zero == Frac(0, 1)
One == Frac(1, 1)
Hundred == Frac(100, 1)

(****************************** inputs *************************************)
\* a row of signals_df: the index (date) and the two columns the engine reads
Row(d, c, p) == [date |-> d, Close |-> c, position |-> p]

\* a table is drawn as a choice <<Close, position, gap>> for each of its rows;
\* the first row is dated day 1 (its gap is not used and fixed to 1), and each
\* later row is dated gap days after the row before, so dates strictly increase
RowChoices == Closes \X Positions \X Gaps

Choices(n) == {f \in [1..n -> RowChoices] : n >= 1 => f[1][3] = 1}

RECURSIVE DateOf(_, _)
DateOf(f, k) == IF k = 1 THEN 1 ELSE DateOf(f, k - 1) + f[k][3]

Table(f) ==
    IF DOMAIN f = {} THEN <<>>
    ELSE [k \in DOMAIN f |-> Row(DateOf(f, k), f[k][1], f[k][2])]

VARIABLES
    signals_df,          \* the table run_backtest scans
    exit_strategy,       \* parameter
    take_profit,         \* parameter, in percent
    stop_loss,           \* parameter, in percent
    trade_timeout_days,  \* parameter
    pc,                  \* "scan", "close", "metrics", "done"
    i,                   \* rows processed so far
    in_position,
    entry_price,
    entry_date,
    trades,              \* the list trades
    results,             \* the returned dict
    signals_df2,         \* a second call of run_backtest with the same
    in_position2,        \*   parameters on another table, and its loop
    entry_price2,        \*   variables (used when two runs are compared)
    entry_date2,
    trades2,
    tickers,             \* the batch test of app.py: the sampled tickers,
    batch_i,             \*   how many of them the loop has taken,
    all_results,         \*   the rows collected so far,
    run_mode,            \*   st.session_state.run_mode
    batch_pc,            \*   "idle", "loop", "raised", "stopped", "collected"
    session_keys,        \* the keys of st.session_state other than run_mode
    app_pc               \* where the script of app.py is: "idle" (it has
                         \*   ended), "batch", "render", "error"

second == <<signals_df2, in_position2, entry_price2, entry_date2, trades2>>

batch == <<tickers, batch_i, all_results, run_mode, batch_pc>>

dashboard == <<session_keys, app_pc>>

vars == <<signals_df, exit_strategy, take_profit, stop_loss, trade_timeout_days,
          pc, i, in_position, entry_price, entry_date, trades, results, second,
          batch, dashboard>>

params == <<signals_df, exit_strategy, take_profit, stop_loss, trade_timeout_days>>

(************************ run_backtest: the scan ***************************)
\* the loop variables of run_backtest as one value
State(pos, price, date, ts) ==
    [in_position |-> pos, entry_price |-> price, entry_date |-> date, trades |-> ts]

\* lines 18-21
InitialState == State(FALSE, 0, NoDate, <<>>)

\* one dict appended to trades; P&L is (exit_price - entry_price) / entry_price
Trade(e_date, e_price, x_date, x_price, type) ==
    [Entry_Date |-> e_date, Entry_Price |-> e_price,
     Exit_Date |-> x_date, Exit_Price |-> x_price,
     PnL |-> Frac(x_price - e_price, e_price), Exit_Type |-> type]

\* Check 1: row['Close'] >= entry_price * (1 + take_profit)
TakeProfitHit(df, idx, e_price) ==
    df[idx].Close * 100 >= e_price * (100 + take_profit)

\* a variant of Check 2 that takes the percentage for the fraction
StopLossHit_PercentAsFraction(df, idx, e_price) ==
    df[idx].Close <= e_price * (1 - stop_loss)

\* Check 2: row['Close'] <= entry_price * (1 - stop_loss)
StopLossHit(df, idx, e_price) ==
    df[idx].Close * 100 <= e_price * (100 - stop_loss)

\* a variant of Check 3 that counts the rows seen since the entry instead of
\* the calendar days between the two dates
TimeoutHit_CountsRows(df, idx, e_date) ==
    Cardinality({j \in 1..idx : df[j].date > e_date}) >= trade_timeout_days

\* Check 3: (index - entry_date).days >= trade_timeout_days
TimeoutHit(df, idx, e_date) ==
    df[idx].date - e_date >= trade_timeout_days

\* Check 4 and the "Reverse Crossover" policy: row['position'] == -1.0
BearishCross(df, idx) == df[idx].position = -1

\* a variant of the chain that tests the timeout before the price levels
ExitReason_TimeoutFirst(df, idx, e_price, e_date) ==
    IF exit_strategy = TPSL THEN
        IF TimeoutHit(df, idx, e_date) THEN "Timeout"
        ELSE IF TakeProfitHit(df, idx, e_price) THEN "Take-Profit"
        ELSE IF StopLossHit(df, idx, e_price) THEN "Stop-Loss"
        ELSE IF BearishCross(df, idx) THEN "Reverse Crossover"
        ELSE "none"
    ELSE IF exit_strategy = REVERSE THEN
        IF BearishCross(df, idx) THEN "Reverse Crossover" ELSE "none"
    ELSE "none"

\* a variant of the chain whose "Reverse Crossover" policy also applies the
\* take-profit and stop-loss levels
ExitReason_ReverseHasStops(df, idx, e_price, e_date) ==
    IF exit_strategy = TPSL THEN
        IF TakeProfitHit(df, idx, e_price) THEN "Take-Profit"
        ELSE IF StopLossHit(df, idx, e_price) THEN "Stop-Loss"
        ELSE IF TimeoutHit(df, idx, e_date) THEN "Timeout"
        ELSE IF BearishCross(df, idx) THEN "Reverse Crossover"
        ELSE "none"
    ELSE IF exit_strategy = REVERSE THEN
        IF TakeProfitHit(df, idx, e_price) THEN "Take-Profit"
        ELSE IF StopLossHit(df, idx, e_price) THEN "Stop-Loss"
        ELSE IF BearishCross(df, idx) THEN "Reverse Crossover"
        ELSE "none"
    ELSE "none"

\* the if / elif chain of the exit block: the exit type of the branch taken on
\* row idx while in position, "none" when no branch is taken
ExitReason(df, idx, e_price, e_date) ==
    IF exit_strategy = TPSL THEN
        IF TakeProfitHit(df, idx, e_price) THEN "Take-Profit"
        ELSE IF StopLossHit(df, idx, e_price) THEN "Stop-Loss"
        ELSE IF TimeoutHit(df, idx, e_date) THEN "Timeout"
        ELSE IF BearishCross(df, idx) THEN "Reverse Crossover"
        ELSE "none"
    ELSE IF exit_strategy = REVERSE THEN
        IF BearishCross(df, idx) THEN "Reverse Crossover" ELSE "none"
    ELSE "none"

\* a variant that fills a take-profit exit at the target price, not the close
ExitPrice_AtTarget(df, idx, e_price) ==
    IF TakeProfitHit(df, idx, e_price)
    THEN (e_price * (100 + take_profit)) \div 100
    ELSE df[idx].Close

\* exit_price = row['Close'] in every branch
ExitPrice(df, idx, e_price) == df[idx].Close

\* a variant of the exit block that puts the new trade in front of the list
ExitBlock_Prepends(df, idx, st) ==
    IF st.in_position /\ ExitReason(df, idx, st.entry_price, st.entry_date) # "none"
    THEN [st EXCEPT
            !.trades = <<Trade(st.entry_date, st.entry_price, df[idx].date,
                               ExitPrice(df, idx, st.entry_price),
                               ExitReason(df, idx, st.entry_price,
                                          st.entry_date))>> \o @,
            !.in_position = FALSE]
    ELSE st

\* the exit block of one iteration
ExitBlock(df, idx, st) ==
    IF st.in_position /\ ExitReason(df, idx, st.entry_price, st.entry_date) # "none"
    THEN [st EXCEPT
            !.trades = Append(@, Trade(st.entry_date, st.entry_price,
                                       df[idx].date,
                                       ExitPrice(df, idx, st.entry_price),
                                       ExitReason(df, idx, st.entry_price,
                                                  st.entry_date))),
            !.in_position = FALSE]
    ELSE st

\* a variant of the entry block without the  if not in_position  guard
EntryBlock_NoFlatGuard(df, idx, st) ==
    IF df[idx].position = 1
    THEN [st EXCEPT !.in_position = TRUE,
                    !.entry_price = df[idx].Close,
                    !.entry_date = df[idx].date]
    ELSE st

\* a variant of the entry block that enters on any row without a bearish cross
EntryBlock_NoFreshCross(df, idx, st) ==
    IF ~st.in_position /\ df[idx].position # -1
    THEN [st EXCEPT !.in_position = TRUE,
                    !.entry_price = df[idx].Close,
                    !.entry_date = df[idx].date]
    ELSE st

\* a variant of the entry block that looks at the next row: it enters only
\* when the next close is not below this one
EntryBlock_PeeksAhead(df, idx, st) ==
    IF /\ ~st.in_position
       /\ df[idx].position = 1
       /\ (idx < Len(df) => df[idx + 1].Close >= df[idx].Close)
    THEN [st EXCEPT !.in_position = TRUE,
                    !.entry_price = df[idx].Close,
                    !.entry_date = df[idx].date]
    ELSE st

\* a variant of the entry block that enters on a cross of either direction
EntryBlock_AnyCross(df, idx, st) ==
    IF ~st.in_position /\ df[idx].position # 0
    THEN [st EXCEPT !.in_position = TRUE,
                    !.entry_price = df[idx].Close,
                    !.entry_date = df[idx].date]
    ELSE st

\* the entry block of one iteration
EntryBlock(df, idx, st) ==
    IF ~st.in_position /\ df[idx].position = 1
    THEN [st EXCEPT !.in_position = TRUE,
                    !.entry_price = df[idx].Close,
                    !.entry_date = df[idx].date]
    ELSE st

\* a variant of the iteration that skips the first row of the table
StepRow_SkipsFirstRow(df, idx, st) ==
    IF idx = 1 THEN st ELSE EntryBlock(df, idx, ExitBlock(df, idx, st))

\* a variant of the iteration that runs the entry block before the exit block
StepRow_EntryFirst(df, idx, st) == ExitBlock(df, idx, EntryBlock(df, idx, st))

\* a variant of the iteration in which an exit ends the row (a  continue
\* after the exit)
StepRow_ExitEndsRow(df, idx, st) ==
    IF ExitBlock(df, idx, st).in_position # st.in_position
    THEN ExitBlock(df, idx, st)
    ELSE EntryBlock(df, idx, ExitBlock(df, idx, st))

\* one iteration of the for loop: exit block first, then entry block
StepRow(df, idx, st) == EntryBlock(df, idx, ExitBlock(df, idx, st))

\* a variant of the final block that drops the open position
CloseOpen_Dropped(df, st) == st

\* the block after the loop: close any open position on the last row
CloseOpen(df, st) ==
    IF st.in_position
    THEN [st EXCEPT !.trades = Append(@, Trade(st.entry_date, st.entry_price,
                                               df[Len(df)].date, df[Len(df)].Close,
                                               "End of Backtest"))]
    ELSE st

(************************ run_backtest: the metrics ************************)
\* trades_df['P&L %'] after the conversion to percent
PnLPct(t) == FMul(t.PnL, Hundred)

\* trades_df['Return Factor']
ReturnFactor(t) == FAdd(FDiv(PnLPct(t), Hundred), One)

\* trades_df['Cumulative Return'] at trade k: cumprod of the return factors
RECURSIVE CumulativeReturn(_, _)
CumulativeReturn(ts, k) ==
    IF k = 0 THEN One ELSE FMul(CumulativeReturn(ts, k - 1), ReturnFactor(ts[k]))

\* a variant of the peak that starts at the initial equity of 1
RECURSIVE Peak_FromInitialEquity(_, _)
Peak_FromInitialEquity(ts, k) ==
    IF k = 1 THEN FMax(One, CumulativeReturn(ts, 1))
    ELSE FMax(Peak_FromInitialEquity(ts, k - 1), CumulativeReturn(ts, k))

\* peak at trade k: cummax of the cumulative return, starting at trade 1
RECURSIVE Peak(_, _)
Peak(ts, k) ==
    IF k = 1 THEN CumulativeReturn(ts, 1)
    ELSE FMax(Peak(ts, k - 1), CumulativeReturn(ts, k))

\* a variant of the drawdown that measures the decline as a positive magnitude
Drawdown_Magnitude(ts, k) ==
    FDiv(FSub(Peak(ts, k), CumulativeReturn(ts, k)), Peak(ts, k))

\* drawdown at trade k
Drawdown(ts, k) ==
    FDiv(FSub(CumulativeReturn(ts, k), Peak(ts, k)), Peak(ts, k))

\* drawdown.min() over trades 1..k
RECURSIVE MinDrawdown(_, _)
MinDrawdown(ts, k) ==
    IF k = 1 THEN Drawdown(ts, 1)
    ELSE FMin(MinDrawdown(ts, k - 1), Drawdown(ts, k))

MaxDrawdown(ts) == FMul(MinDrawdown(ts, Len(ts)), Hundred)

\* the sum of the P&L percentages of trades 1..k
RECURSIVE SumPnLPct(_, _)
SumPnLPct(ts, k) ==
    IF k = 0 THEN Zero ELSE FAdd(SumPnLPct(ts, k - 1), PnLPct(ts[k]))

\* a variant of the total return that adds the percentages up
TotalReturn_Additive(ts) == SumPnLPct(ts, Len(ts))

\* total_return = (trades_df['Return Factor'].prod() - 1) * 100
TotalReturn(ts) == FMul(FSub(CumulativeReturn(ts, Len(ts)), One), Hundred)

\* a variant that counts a trade with P&L 0 as a win
WinningTrades_ZeroWins(ts) == {k \in 1..Len(ts) : FLeq(Zero, PnLPct(ts[k]))}

\* winning_trades = trades_df[trades_df['P&L %'] > 0]
WinningTrades(ts) == {k \in 1..Len(ts) : FLess(Zero, PnLPct(ts[k]))}

WinRate(ts) ==
    IF Len(ts) > 0
    THEN FMul(Frac(Cardinality(WinningTrades(ts)), Len(ts)), Hundred)
    ELSE Zero

\* the rows of the returned trades_df
TradesDf(ts) == [k \in 1..Len(ts) |-> [ts[k] EXCEPT !.PnL = PnLPct(ts[k])]]

\* the dict run_backtest returns
Metrics(ts) ==
    IF ts = <<>>
    THEN [trades |-> <<>>, total_return |-> Zero, max_drawdown |-> Zero,
          win_rate |-> Zero, total_trades |-> 0]
    ELSE [trades |-> TradesDf(ts), total_return |-> TotalReturn(ts),
          max_drawdown |-> MaxDrawdown(ts), win_rate |-> WinRate(ts),
          total_trades |-> Len(ts)]

\* value of results before run_backtest has returned
NotReturned ==
    [trades |-> <<>>, total_return |-> Zero, max_drawdown |-> Zero,
     win_rate |-> Zero, total_trades |-> -1]

(****************************** the machine ********************************)
\* the script of app.py is not running and the session is new
NoDashboard ==
    /\ session_keys = {}
    /\ app_pc = "idle"

\* no batch test is running
NoBatch ==
    /\ tickers = <<>>
    /\ batch_i = 0
    /\ all_results = <<>>
    /\ run_mode = "none"
    /\ batch_pc = "idle"

Current == State(in_position, entry_price, entry_date, trades)

\* the parameters of the call: either policy, the price levels of app.py, and
\* a timeout (the "Reverse Crossover" policy does not read it, so one value
\* is tried there)
Config ==
    /\ exit_strategy \in {TPSL, REVERSE}
    /\ take_profit = TAKE_PROFIT_PCT
    /\ stop_loss = STOP_LOSS_PCT
    /\ trade_timeout_days \in Timeouts
    /\ exit_strategy = REVERSE => trade_timeout_days = 2

Init ==
    /\ \E n \in 0..MaxLen : \E f \in Choices(n) : signals_df = Table(f)
    /\ Config
    /\ pc = "scan"
    /\ i = 0
    /\ in_position = InitialState.in_position
    /\ entry_price = InitialState.entry_price
    /\ entry_date = InitialState.entry_date
    /\ trades = InitialState.trades
    /\ results = NotReturned
    /\ signals_df2 = <<>>
    /\ in_position2 = InitialState.in_position
    /\ entry_price2 = InitialState.entry_price
    /\ entry_date2 = InitialState.entry_date
    /\ trades2 = InitialState.trades
    /\ NoBatch
    /\ NoDashboard

\* one iteration of  for index, row in signals_df.iterrows()
ProcessRow ==
    /\ pc = "scan"
    /\ i < Len(signals_df)
    /\ LET st == StepRow(signals_df, i + 1, Current)
       IN  /\ in_position' = st.in_position
           /\ entry_price' = st.entry_price
           /\ entry_date' = st.entry_date
           /\ trades' = st.trades
    /\ i' = i + 1
    /\ UNCHANGED <<params, pc, results, second, batch, dashboard>>

\* the loop is over: the End of Backtest block
EndOfBacktest ==
    /\ pc = "scan"
    /\ i = Len(signals_df)
    /\ trades' = CloseOpen(signals_df, Current).trades
    /\ pc' = "metrics"
    /\ UNCHANGED <<params, i, in_position, entry_price, entry_date, results,
                   second, batch, dashboard>>

\* the metrics block and the return
CalculateMetrics ==
    /\ pc = "metrics"
    /\ results' = Metrics(trades)
    /\ pc' = "done"
    /\ UNCHANGED <<params, i, in_position, entry_price, entry_date, trades,
                   second, batch, dashboard>>

Next == ProcessRow \/ EndOfBacktest \/ CalculateMetrics

Spec == Init /\ [][Next]_vars

(******************* two runs of the scan side by side *********************)
Current2 == State(in_position2, entry_price2, entry_date2, trades2)

\* the tables that start with the first k rows of df and go on with at most
\* one row of their own
Variants(df) ==
    UNION {{SubSeq(df, 1, k)} \cup
           {Append(SubSeq(df, 1, k),
                   Row(IF k = 0 THEN 1 ELSE df[k].date + g, c, p)) :
                g \in Gaps, c \in Closes, p \in Positions} :
           k \in 0..Len(df)}

Longest == IF Len(signals_df) >= Len(signals_df2)
           THEN Len(signals_df) ELSE Len(signals_df2)

\* two calls with the same parameters on two tables that share a prefix
InitPair ==
    /\ \E n \in 0..PairLen : \E f \in Choices(n) : signals_df = Table(f)
    /\ signals_df2 \in Variants(signals_df)
    /\ Config
    /\ pc = "scan"
    /\ i = 0
    /\ in_position = InitialState.in_position
    /\ entry_price = InitialState.entry_price
    /\ entry_date = InitialState.entry_date
    /\ trades = InitialState.trades
    /\ results = NotReturned
    /\ in_position2 = InitialState.in_position
    /\ entry_price2 = InitialState.entry_price
    /\ entry_date2 = InitialState.entry_date
    /\ trades2 = InitialState.trades
    /\ NoBatch
    /\ NoDashboard

\* both loops run their next iteration (a loop that is over stays as it is)
ProcessRowPair ==
    /\ pc = "scan"
    /\ i < Longest
    /\ LET st == IF i < Len(signals_df)
                 THEN StepRow(signals_df, i + 1, Current) ELSE Current
           st2 == IF i < Len(signals_df2)
                  THEN StepRow(signals_df2, i + 1, Current2) ELSE Current2
       IN  /\ in_position' = st.in_position
           /\ entry_price' = st.entry_price
           /\ entry_date' = st.entry_date
           /\ trades' = st.trades
           /\ in_position2' = st2.in_position
           /\ entry_price2' = st2.entry_price
           /\ entry_date2' = st2.entry_date
           /\ trades2' = st2.trades
    /\ i' = i + 1
    /\ UNCHANGED <<params, pc, results, signals_df2, batch, dashboard>>

NextPair == ProcessRowPair

SpecPair == InitPair /\ [][NextPair]_vars

(************* run_backtest on input it does not validate ******************)
\* the loop variables and the result at the top of run_backtest
Fresh ==
    /\ pc = "scan"
    /\ i = 0
    /\ in_position = InitialState.in_position
    /\ entry_price = InitialState.entry_price
    /\ entry_date = InitialState.entry_date
    /\ trades = InitialState.trades
    /\ results = NotReturned
    /\ signals_df2 = <<>>
    /\ in_position2 = InitialState.in_position
    /\ entry_price2 = InitialState.entry_price
    /\ entry_date2 = InitialState.entry_date
    /\ trades2 = InitialState.trades
    /\ NoBatch
    /\ NoDashboard

\* index values of a table in any order, repeats included
Dates == {1, 2, 4}

\* a table whose rows carry any date: run_backtest takes the index as it is
DatedRowChoices == Closes \X Positions \X Dates
DatedTable(f) ==
    IF DOMAIN f = {} THEN <<>>
    ELSE [k \in DOMAIN f |-> Row(f[k][3], f[k][1], f[k][2])]

InitUnsorted ==
    /\ \E n \in 0..CheckLen : \E f \in [1..n -> DatedRowChoices] :
          signals_df = DatedTable(f)
    /\ Config
    /\ Fresh

SpecUnsorted == InitUnsorted /\ [][Next]_vars

\* exit_strategy is any string and the two fractions are any numbers:
\* run_backtest reads its parameters as they are
Policies == {TPSL, REVERSE, "Trailing Stop"}
TakeProfits == {-5, 0, TAKE_PROFIT_PCT}
StopLosses == {-5, 0, STOP_LOSS_PCT}

InitAnyConfig ==
    /\ \E n \in 0..CheckLen : \E f \in Choices(n) : signals_df = Table(f)
    /\ exit_strategy \in Policies
    /\ take_profit \in TakeProfits
    /\ stop_loss \in StopLosses
    /\ trade_timeout_days = 2
    /\ Fresh

SpecAnyConfig == InitAnyConfig /\ [][Next]_vars

\* the closes of the scenario of six rows
ScenarioCloses == <<100, 102, 98, 91, 95, 112>>

\* the scenario leaves open the dates, the timeout and whether other rows
\* carry a bearish cross
ScenarioChoices ==
    {f \in [1..Len(ScenarioCloses) -> {0, -1} \X Gaps] : f[1][2] = 1}

RECURSIVE ScenarioDate(_, _)
ScenarioDate(f, k) == IF k = 1 THEN 1 ELSE ScenarioDate(f, k - 1) + f[k][2]

\* the bullish cross is on index 1, the second row
ScenarioTable(f) ==
    [k \in DOMAIN f |->
        Row(ScenarioDate(f, k), ScenarioCloses[k],
            IF k = 2 THEN 1 ELSE f[k][1])]

InitScenario ==
    /\ \E f \in ScenarioChoices : signals_df = ScenarioTable(f)
    /\ exit_strategy = TPSL
    /\ take_profit = 10
    /\ stop_loss = 5
    /\ trade_timeout_days \in {2, 60}
    /\ Fresh

SpecScenario == InitScenario /\ [][Next]_vars

(*********************** app.py: the batch test ****************************)
\* the dates a download can hold: data_fetch_start_date (the warm-up), then
\* selected_start_date and selected_end_date, the backtest window
FetchDates == {1, 2, 3}
selected_start_date == 2
selected_end_date == 3

\* what yf.download does for one ticker: it raises, or it returns the closes
\* of some of the dates (0: no row for that date), possibly of none
NoPrices == [d \in FetchDates |-> 0]
Downloads ==
    {[raises |-> TRUE, prices |-> NoPrices]} \cup
    {[raises |-> FALSE, prices |-> g] : g \in [FetchDates -> {0, 20, 25}]}

\* the rows of a download, by ascending date
RECURSIVE PriceRows(_, _)
PriceRows(g, ds) ==
    IF ds = {} THEN <<>>
    ELSE LET d == CHOOSE x \in ds : \A y \in ds : x <= y
         IN  <<[date |-> d, Close |-> g[d]]>> \o PriceRows(g, ds \ {d})

\* fetch_data: the download, or an empty DataFrame when it raised
fetch_data(t) ==
    IF t.raises THEN <<>>
    ELSE PriceRows(t.prices, {d \in FetchDates : t.prices[d] # 0})

\* rolling(period).mean() at row k: NaN (denominator 0) until period rows exist
NaN == <<0, 0>>
RECURSIVE SumClose(_, _, _)
SumClose(data, from, to) ==
    IF from > to THEN 0 ELSE data[to].Close + SumClose(data, from, to - 1)
sma(data, k, period) ==
    IF k < period THEN NaN ELSE Frac(SumClose(data, k - period + 1, k), period)

\* the Signal column: 1 where Fast_MA > Slow_MA, -1 where it is below, else 0
\* (a comparison with NaN is false)
Signal(fast, slow) ==
    IF fast = NaN \/ slow = NaN THEN 0
    ELSE IF FLess(slow, fast) THEN 1
    ELSE IF FLess(fast, slow) THEN -1
    ELSE 0

\* generate_signals: the columns Fast_MA, Slow_MA and Signal are added, and
\* no other
generate_signals(data) ==
    [k \in DOMAIN data |->
        [date |-> data[k].date, Close |-> data[k].Close,
         Fast_MA |-> sma(data, k, FAST_PERIOD),
         Slow_MA |-> sma(data, k, SLOW_PERIOD),
         Signal |-> Signal(sma(data, k, FAST_PERIOD), sma(data, k, SLOW_PERIOD))]]

\* signals_df[selected_start_date:selected_end_date]
Window(df) ==
    SelectSeq(df, LAMBDA r : selected_start_date <= r.date
                             /\ r.date <= selected_end_date)

\* the for loop of run_backtest over the rows 1..k of a table
RECURSIVE Scan(_, _)
Scan(df, k) == IF k = 0 THEN InitialState ELSE StepRow(df, k, Scan(df, k - 1))

\* what a call has to offer its caller: None, a raised exception, or a dict
NoneReturned == [kind |-> "None", results |-> NotReturned]
KeyErrorRaised == [kind |-> "KeyError", results |-> NotReturned]
Returned(r) == [kind |-> "results", results |-> r]

\* run_backtest as a call: the first iteration starts Flat and so reads
\* row['position'] in the entry block, which raises KeyError on a table
\* without that column
run_backtest(df) ==
    IF df # <<>> /\ "position" \notin DOMAIN df[1]
    THEN KeyErrorRaised
    ELSE Returned(Metrics(CloseOpen(df, Scan(df, Len(df))).trades))

\* run_full_test_for_ticker
run_full_test_for_ticker(t) ==
    IF fetch_data(t) = <<>> THEN NoneReturned
    ELSE IF Window(generate_signals(fetch_data(t))) = <<>> THEN NoneReturned
    ELSE run_backtest(Window(generate_signals(fetch_data(t))))

\* the dict appended to all_results
ResultRow(k, r) ==
    [ticker |-> k, total_return |-> r.total_return,
     max_drawdown |-> r.max_drawdown, win_rate |-> r.win_rate,
     total_trades |-> r.total_trades]

\* the keys the rendering reads in each run mode
SingleKeys == {"single_ticker", "single_test_df", "single_results"}
BatchKeys == {"batch_results_df", "top_performers_data", "worst_performers_data"}

\* "Run Batch Backtest" was pressed and the tickers are sampled
InitBatch ==
    /\ \E n \in 1..MaxTickers : tickers \in [1..n -> Downloads]
    /\ batch_i = 0
    /\ all_results = <<>>
    /\ run_mode = "batch"
    /\ batch_pc = "loop"
    /\ session_keys = {}
    /\ app_pc = "batch"
    /\ signals_df = <<>>
    /\ exit_strategy = TPSL
    /\ take_profit = TAKE_PROFIT_PCT
    /\ stop_loss = STOP_LOSS_PCT
    /\ trade_timeout_days = TRADE_TIMEOUT_DAYS
    /\ pc = "done"
    /\ i = 0
    /\ in_position = InitialState.in_position
    /\ entry_price = InitialState.entry_price
    /\ entry_date = InitialState.entry_date
    /\ trades = InitialState.trades
    /\ results = NotReturned
    /\ signals_df2 = <<>>
    /\ in_position2 = InitialState.in_position
    /\ entry_price2 = InitialState.entry_price
    /\ entry_date2 = InitialState.entry_date
    /\ trades2 = InitialState.trades

\* one iteration of  for i, ticker in enumerate(tickers)
ProcessTicker ==
    /\ batch_pc = "loop"
    /\ batch_i < Len(tickers)
    /\ LET out == run_full_test_for_ticker(tickers[batch_i + 1])
       IN  /\ batch_pc' = IF out.kind = "KeyError" THEN "raised" ELSE "loop"
           /\ all_results' = IF out.kind = "results"
                             THEN Append(all_results,
                                         ResultRow(batch_i + 1, out.results))
                             ELSE all_results
           /\ app_pc' = IF out.kind = "KeyError" THEN "idle" ELSE app_pc
    /\ batch_i' = batch_i + 1
    /\ UNCHANGED <<params, pc, i, in_position, entry_price, entry_date, trades,
                   results, second, tickers, run_mode, session_keys>>

\* after the loop: st.stop() when nothing was collected, else results_df and
\* the analysis of the top and worst performers are stored and the script
\* goes on to the rendering
FinishBatch ==
    /\ batch_pc = "loop"
    /\ batch_i = Len(tickers)
    /\ batch_pc' = IF all_results = <<>> THEN "stopped" ELSE "collected"
    /\ run_mode' = IF all_results = <<>> THEN "none" ELSE run_mode
    /\ session_keys' = IF all_results = <<>> THEN session_keys
                       ELSE session_keys \cup BatchKeys
    /\ app_pc' = IF all_results = <<>> THEN "idle" ELSE "render"
    /\ UNCHANGED <<params, pc, i, in_position, entry_price, entry_date, trades,
                   results, second, tickers, batch_i, all_results>>

NextBatch == ProcessTicker \/ FinishBatch

SpecBatch == InitBatch /\ [][NextBatch]_vars

(******************* app.py: the script and its reruns *********************)
\* the parameters app.py passes to run_backtest; no call of it is in progress
AppParams ==
    /\ signals_df = <<>>
    /\ exit_strategy = TPSL
    /\ take_profit = TAKE_PROFIT_PCT
    /\ stop_loss = STOP_LOSS_PCT
    /\ trade_timeout_days = TRADE_TIMEOUT_DAYS
    /\ pc = "done"
    /\ i = 0
    /\ in_position = InitialState.in_position
    /\ entry_price = InitialState.entry_price
    /\ entry_date = InitialState.entry_date
    /\ trades = InitialState.trades
    /\ results = NotReturned
    /\ signals_df2 = <<>>
    /\ in_position2 = InitialState.in_position
    /\ entry_price2 = InitialState.entry_price
    /\ entry_date2 = InitialState.entry_date
    /\ trades2 = InitialState.trades

\* the first run of the script in a new session has reached the rendering:
\* no button is pressed, st.session_state is empty
InitDashboard ==
    /\ AppParams
    /\ tickers = <<>>
    /\ batch_i = 0
    /\ all_results = <<>>
    /\ batch_pc = "idle"
    /\ run_mode = "none"
    /\ session_keys = {}
    /\ app_pc = "render"

\* the script has ended (normally, by st.stop() or by an exception) and the
\* next interaction starts it again
Waiting == app_pc \in {"idle", "error"}

\* the locals of the batch handler do not outlive a run of the script
NoLocals ==
    /\ tickers' = <<>>
    /\ batch_i' = 0
    /\ all_results' = <<>>
    /\ batch_pc' = "idle"

\* a widget other than the two buttons changed: the script runs again with
\* both buttons False and comes to the rendering
Rerun ==
    /\ Waiting
    /\ app_pc' = "render"
    /\ NoLocals
    /\ UNCHANGED <<params, pc, i, in_position, entry_price, entry_date, trades,
                   results, second, run_mode, session_keys>>

\* "Run Single Stock Test": the session is cleared, run_mode set, and the
\* ticker tested; an exception of the test ends the script where it stands
RunSingleStockTest ==
    /\ Waiting
    /\ \E t \in Downloads :
          LET out == run_full_test_for_ticker(t)
          IN  /\ run_mode' = IF out.kind = "None" THEN "none" ELSE "single"
              /\ session_keys' = IF out.kind = "results" THEN SingleKeys ELSE {}
              /\ app_pc' = IF out.kind = "KeyError" THEN "idle" ELSE "render"
    /\ NoLocals
    /\ UNCHANGED <<params, pc, i, in_position, entry_price, entry_date, trades,
                   results, second>>

\* what the batch handler finds when it opens nifty500.csv and samples it
CsvStates == {"missing", "unreadable", "too few symbols", "ok"}

\* "Run Batch Backtest" up to the loop: the session is cleared and run_mode
\* set; a missing or unreadable file ends the run by st.stop(), a sample
\* larger than the list by the ValueError of random.sample
RunBatchBacktest ==
    /\ Waiting
    /\ run_mode' = "batch"
    /\ session_keys' = {}
    /\ \E csv \in CsvStates :
          IF csv = "ok"
          THEN /\ \E n \in 1..MaxTickers : tickers' \in [1..n -> Downloads]
               /\ batch_pc' = "loop"
               /\ app_pc' = "batch"
          ELSE /\ tickers' = <<>>
               /\ batch_pc' = "idle"
               /\ app_pc' = "idle"
    /\ batch_i' = 0
    /\ all_results' = <<>>
    /\ UNCHANGED <<params, pc, i, in_position, entry_price, entry_date, trades,
                   results, second>>

\* the keys the rendering reads for the current run mode
KeysRead ==
    IF run_mode = "single" THEN SingleKeys
    ELSE IF run_mode = "batch" THEN BatchKeys
    ELSE {}

\* the main page: an attribute of st.session_state that is not there raises
Render ==
    /\ app_pc = "render"
    /\ app_pc' = IF KeysRead \subseteq session_keys THEN "idle" ELSE "error"
    /\ UNCHANGED <<params, pc, i, in_position, entry_price, entry_date, trades,
                   results, second, batch, session_keys>>

NextDashboard ==
    \/ Rerun
    \/ RunSingleStockTest
    \/ RunBatchBacktest
    \/ ProcessTicker
    \/ FinishBatch
    \/ Render

SpecDashboard == InitDashboard /\ [][NextDashboard]_vars

TypeOK ==
    /\ pc \in {"scan", "metrics", "done"}
    /\ i \in 0..Len(signals_df)
    /\ in_position \in BOOLEAN
    /\ Len(trades) <= Len(signals_df)

(***************************** properties **********************************)
\* the row a step of the scan processes, and what the step did
ScanStep == pc = "scan" /\ i' = i + 1
NextRow == signals_df[i + 1]
Exited == Len(trades') = Len(trades) + 1
LastTrade(ts) == ts[Len(ts)]
LastRow == signals_df[Len(signals_df)]
Final == pc \in {"metrics", "done"}

\* the rows of the table that carry a given date
RowsDated(d) == {k \in 1..Len(signals_df) : signals_df[k].date = d}

\* C1 (single position): a step of the scan closes at most one trade and only
\* when a position is open; a position that is open and not closed on the row
\* stays as it is, also on a bullish-cross row (same entry_price, same
\* entry_date); entry_price and entry_date change only on a bullish-cross row
\* that the engine reaches Flat (it was Flat, or the row closed the position).
C1_SinglePosition ==
    [][ScanStep =>
          /\ Len(trades') \in {Len(trades), Len(trades) + 1}
          /\ (Exited => in_position)
          /\ (in_position /\ ~Exited) =>
                /\ in_position'
                /\ entry_price' = entry_price
                /\ entry_date' = entry_date
          /\ (\/ <<entry_price', entry_date'>> # <<entry_price, entry_date>>
              \/ (~in_position /\ in_position')) =>
                /\ (~in_position \/ Exited)
                /\ NextRow.position = 1]_vars

\* C1 witness: the engine is Holding after a bullish-cross row that it
\* processed while Holding and that did not close the position.
C1_Witness ==
    /\ pc = "scan" /\ i >= 2 /\ in_position
    /\ signals_df[i].position = 1
    /\ entry_date < signals_df[i].date

\* C2 (forced closure): when the loop is over and the engine is Holding,
\* exactly one trade is appended, with exit type End of Backtest, the last
\* row's date and the last row's close; when it is Flat nothing is appended;
\* no step of the scan records an End of Backtest trade.
C2_ForcedClosure ==
    [][/\ (pc = "scan" /\ pc' = "metrics") =>
             IF in_position
             THEN /\ Len(trades') = Len(trades) + 1
                  /\ SubSeq(trades', 1, Len(trades)) = trades
                  /\ LastTrade(trades').Exit_Type = "End of Backtest"
                  /\ LastTrade(trades').Exit_Date = LastRow.date
                  /\ LastTrade(trades').Exit_Price = LastRow.Close
                  /\ LastTrade(trades').Entry_Date = entry_date
                  /\ LastTrade(trades').Entry_Price = entry_price
             ELSE trades' = trades
        /\ ScanStep =>
             \A k \in 1..Len(trades') : trades'[k].Exit_Type # "End of Backtest"]_vars

\* C2 witness: the series ended while Holding and the closing trade is there,
\* after an earlier trade.
C2_Witness ==
    /\ pc = "metrics" /\ in_position /\ Len(trades) >= 2
    /\ LastTrade(trades).Exit_Type = "End of Backtest"
    /\ LastTrade(trades).Exit_Price # LastTrade(trades).Entry_Price

\* C3 (exit precedence): on a row processed while Holding under the
\* take-profit / stop-loss policy at most one trade is recorded, and its exit
\* type is that of the first satisfied condition in the order take-profit,
\* stop-loss, timeout, reverse crossover; with no condition satisfied no trade
\* is recorded.  The conditions are stated on the return since entry.
C3_ExitPrecedence ==
    [][(ScanStep /\ in_position /\ exit_strategy = TPSL) =>
          LET gain == (NextRow.Close - entry_price) * 100
              tp == gain >= take_profit * entry_price
              sl == gain <= (0 - stop_loss) * entry_price
              to == NextRow.date - entry_date >= trade_timeout_days
              rc == NextRow.position = -1
              type == LastTrade(trades').Exit_Type
          IN  /\ Len(trades') <= Len(trades) + 1
              /\ (tp \/ sl \/ to \/ rc) <=> Exited
              /\ tp => type = "Take-Profit"
              /\ (sl /\ ~tp) => type = "Stop-Loss"
              /\ (to /\ ~tp /\ ~sl) => type = "Timeout"
              /\ (rc /\ ~tp /\ ~sl /\ ~to) => type = "Reverse Crossover"]_vars

\* C3 witness: a take-profit trade closed on a row that also satisfied the
\* timeout, and a stop-loss trade closed on a bearish-cross row.
C3_Witness ==
    /\ exit_strategy = TPSL
    /\ \E k \in 1..Len(trades) :
          /\ trades[k].Exit_Type = "Take-Profit"
          /\ trades[k].Exit_Date - trades[k].Entry_Date >= trade_timeout_days
    /\ \E k \in 1..Len(trades) :
          /\ trades[k].Exit_Type = "Stop-Loss"
          /\ \E r \in RowsDated(trades[k].Exit_Date) : signals_df[r].position = -1

\* C4 (entry trigger): on every row, the engine that is Flat when the entry
\* check runs ends the row Holding exactly when the row carries a bullish
\* cross; it then holds the row's close and the row's date; a row without a
\* bullish cross never starts a position.
C4_EntryTrigger ==
    [][ScanStep =>
          LET flatAtCheck == ~in_position \/ Exited
          IN  /\ flatAtCheck => (in_position' <=> NextRow.position = 1)
              /\ (flatAtCheck /\ in_position') =>
                    /\ entry_price' = NextRow.Close
                    /\ entry_date' = NextRow.date
              /\ NextRow.position # 1 =>
                    /\ in_position' => (in_position /\ ~Exited)
                    /\ entry_date' = entry_date
                    /\ entry_price' = entry_price]_vars

\* C4 witness: the engine has just entered on a bullish-cross row after at
\* least one row without a cross left it Flat.
C4_Witness ==
    /\ pc = "scan" /\ i >= 2 /\ in_position /\ trades = <<>>
    /\ signals_df[i].position = 1
    /\ entry_date = signals_df[i].date
    /\ entry_price = signals_df[i].Close
    /\ \A k \in 1..(i - 1) : signals_df[k].position = 0

C6_TradePriceLaw ==
    \A k \in 1..Len(trades) :
        \E a \in RowsDated(trades[k].Entry_Date) :
            \E b \in RowsDated(trades[k].Exit_Date) :
                /\ a <= b
                /\ trades[k].Entry_Price = signals_df[a].Close
                /\ trades[k].Exit_Price = signals_df[b].Close

\* C6 witness: the final trade list holds a take-profit trade and a trade of
\* another exit type closed on a later row than its entry.
C6_Witness ==
    /\ Final
    /\ \E k \in 1..Len(trades) : trades[k].Exit_Type = "Take-Profit"
    /\ \E k \in 1..Len(trades) :
          /\ trades[k].Exit_Type \in {"Stop-Loss", "Timeout", "Reverse Crossover",
                                      "End of Backtest"}
          /\ trades[k].Exit_Date > trades[k].Entry_Date
          /\ trades[k].Exit_Price # trades[k].Entry_Price

\* the rows dated at least n calendar days after d, and the first of them
RowsDue(d, n) == {r \in 1..Len(signals_df) : signals_df[r].date >= d + n}
FirstDue(d, n) == CHOOSE r \in RowsDue(d, n) : \A q \in RowsDue(d, n) : r <= q

\* C8 as claimed (timeout exit): under the take-profit / stop-loss policy a
\* position entered at d and not closed by take-profit or stop-loss (on a row
\* up to and including the first row dated at least trade_timeout_days after
\* d) is closed with exit type Timeout no later than that row; no Timeout
\* trade spans fewer than trade_timeout_days calendar days.
C8_TimeoutAsClaimed ==
    (Final /\ exit_strategy = TPSL) =>
        \A k \in 1..Len(trades) :
            LET t == trades[k]
                due == RowsDue(t.Entry_Date, trade_timeout_days)
            IN  /\ t.Exit_Type = "Timeout" =>
                      t.Exit_Date - t.Entry_Date >= trade_timeout_days
                /\ due # {} =>
                      LET f == signals_df[FirstDue(t.Entry_Date, trade_timeout_days)]
                      IN  ~(/\ t.Exit_Type \in {"Take-Profit", "Stop-Loss"}
                            /\ t.Exit_Date <= f.date) =>
                              /\ t.Exit_Type = "Timeout"
                              /\ t.Exit_Date <= f.date

\* C8 as amended: under the take-profit / stop-loss policy a position entered
\* at d is closed no later than the first row dated at least
\* trade_timeout_days calendar days after d; a position closed before that
\* row was closed by take-profit, stop-loss or reverse crossover; a position
\* closed on that row has exit type Timeout unless the row meets the
\* take-profit or the stop-loss level; a Timeout trade never spans fewer than
\* trade_timeout_days calendar days, however many rows lie in between; a
\* position still open has seen no row that late.
C8_TimeoutExit ==
    exit_strategy = TPSL =>
        /\ (pc = "scan" /\ in_position) =>
              \A r \in 1..i : signals_df[r].date - entry_date < trade_timeout_days
        /\ Final =>
            \A k \in 1..Len(trades) :
              LET t == trades[k]
                  due == RowsDue(t.Entry_Date, trade_timeout_days)
              IN  /\ t.Exit_Type = "Timeout" =>
                        t.Exit_Date - t.Entry_Date >= trade_timeout_days
                  /\ due = {} => t.Exit_Type # "Timeout"
                  /\ due # {} =>
                        LET f == signals_df[FirstDue(t.Entry_Date, trade_timeout_days)]
                            gain == (f.Close - t.Entry_Price) * 100
                            tp == gain >= take_profit * t.Entry_Price
                            sl == gain <= (0 - stop_loss) * t.Entry_Price
                        IN  /\ t.Exit_Date <= f.date
                            /\ t.Exit_Date < f.date =>
                                  t.Exit_Type \in {"Take-Profit", "Stop-Loss",
                                                   "Reverse Crossover"}
                            /\ (t.Exit_Date = f.date /\ ~tp /\ ~sl) =>
                                  t.Exit_Type = "Timeout"
                            /\ (t.Exit_Date = f.date /\ tp) =>
                                  t.Exit_Type = "Take-Profit"
                            /\ (t.Exit_Date = f.date /\ sl) =>
                                  t.Exit_Type = "Stop-Loss"

\* C8 witness: a Timeout trade closed across a gap in the dates: the row
\* before the exit row was too early, the exit row is later than d + N, and
\* fewer rows than trade_timeout_days lie after the entry.
C8_Witness ==
    /\ Final /\ exit_strategy = TPSL
    /\ \E k \in 1..Len(trades) :
          /\ trades[k].Exit_Type = "Timeout"
          /\ trades[k].Exit_Date - trades[k].Entry_Date > trade_timeout_days
          /\ \E r \in 1..Len(signals_df) :
                /\ signals_df[r].date > trades[k].Entry_Date
                /\ signals_df[r].date < trades[k].Exit_Date
          /\ Cardinality({r \in 1..Len(signals_df) :
                            /\ signals_df[r].date > trades[k].Entry_Date
                            /\ signals_df[r].date <= trades[k].Exit_Date})
                < trade_timeout_days

\* the equity after trade k: the product of exit price / entry price
RECURSIVE Equity(_)
Equity(k) ==
    IF k = 0 THEN Frac(1, 1)
    ELSE FMul(Equity(k - 1), Frac(trades[k].Exit_Price, trades[k].Entry_Price))

\* the relative change of the equity from trade j to trade k, in percent
Decline(j, k) == FMul(FDiv(FSub(Equity(k), Equity(j)), Equity(j)), Frac(100, 1))

C10_WinRate ==
    pc = "done" =>
        LET n == Len(trades)
            wins == Cardinality({k \in 1..n :
                                   trades[k].Exit_Price > trades[k].Entry_Price})
            rate == results.win_rate
        IN  /\ rate[2] > 0
            /\ 0 <= rate[1] /\ rate[1] <= 100 * rate[2]
            /\ n = 0 => rate = <<0, 1>>
            /\ n > 0 => rate[1] * n = 100 * wins * rate[2]
            /\ results.total_trades = n

\* C10 witness: a returned win rate strictly between 0 and 100 over a trade
\* list that holds a trade with P&L exactly 0.
C10_Witness ==
    /\ pc = "done" /\ results.total_trades >= 2
    /\ FLess(Zero, results.win_rate) /\ FLess(results.win_rate, Hundred)
    /\ \E k \in 1..Len(trades) : trades[k].Exit_Price = trades[k].Entry_Price

\* the number of leading rows on which the two tables agree
CommonPrefix ==
    LET same == {k \in 0..Len(signals_df) :
                    /\ k <= Len(signals_df2)
                    /\ \A j \in 1..k : signals_df[j] = signals_df2[j]}
    IN  CHOOSE k \in same : \A q \in same : q <= k

\* the trades of a list that were closed on one of the first n rows of df
DecidedBy(ts, df, n) ==
    SelectSeq(ts, LAMBDA t : \E r \in 1..n : df[r].date = t.Exit_Date)

\* C7 (no look-ahead): two runs with the same parameters on tables that agree
\* on their first n rows are in the same engine state (Flat or Holding, entry
\* price, entry date, trades) after each of these rows, and whatever the
\* later rows are, the trades closed on the first n rows are the same.
C7_NoLookAhead ==
    /\ i <= CommonPrefix => Current = Current2
    /\ DecidedBy(trades, signals_df, CommonPrefix)
          = DecidedBy(trades2, signals_df2, CommonPrefix)

\* C7 witness: the two runs entered on a common row and then parted on a row
\* on which the tables differ: one closed the position, the other holds it.
C7_Witness ==
    /\ CommonPrefix >= 1 /\ i > CommonPrefix
    /\ i <= Len(signals_df) /\ i <= Len(signals_df2)
    /\ Len(trades) = Len(trades2) + 1
    /\ in_position2 /\ ~in_position
    /\ entry_date2 = LastTrade(trades).Entry_Date
    /\ \E r \in 1..CommonPrefix : signals_df[r].date = entry_date2

\* C11 (zero trades): a table without a bullish-cross row, the empty table
\* included, never opens a position and never records a trade, and the call
\* returns an empty trade list with total_return, win_rate, max_drawdown and
\* total_trades all 0.
C11_ZeroTrades ==
    (\A r \in 1..Len(signals_df) : signals_df[r].position # 1) =>
        /\ ~in_position /\ trades = <<>>
        /\ pc = "done" =>
              /\ results.trades = <<>>
              /\ results.total_return = <<0, 1>>
              /\ results.win_rate = <<0, 1>>
              /\ results.max_drawdown = <<0, 1>>
              /\ results.total_trades = 0

\* C11 witness: the call has returned on a table with moving closes and a
\* bearish cross but no bullish cross.
C11_Witness ==
    /\ pc = "done" /\ Len(signals_df) >= 2 /\ results.total_trades = 0
    /\ \A r \in 1..Len(signals_df) : signals_df[r].position # 1
    /\ \E r \in 1..Len(signals_df) : signals_df[r].position = -1
    /\ signals_df[1].Close # signals_df[2].Close

\* C15 (compounded total return): for a non-empty trade list every returned
\* P&L % is (exit price - entry price) / entry price * 100 and total_return is
\* (the product of exit price / entry price over the trades, minus 1) * 100.
C15_CompoundedReturn ==
    (pc = "done" /\ trades # <<>>) =>
        /\ Len(results.trades) = Len(trades)
        /\ \A k \in 1..Len(trades) :
              results.trades[k].PnL =
                  Frac(100 * (trades[k].Exit_Price - trades[k].Entry_Price),
                       trades[k].Entry_Price)
        /\ results.total_return =
              FMul(FSub(Equity(Len(trades)), Frac(1, 1)), Frac(100, 1))

\* C15 witness: a returned total_return over two or more trades, none of them
\* flat, that differs from the sum of their P&L percentages.
C15_Witness ==
    /\ pc = "done" /\ results.total_trades >= 2
    /\ results.total_return # SumPnLPct(trades, Len(trades))
    /\ \A k \in 1..Len(trades) : trades[k].Exit_Price # trades[k].Entry_Price

\* C16 (drawdown with at most one trade): with no trade or exactly one trade
\* the returned max_drawdown is 0, also when the single trade is a loss.
C16_DrawdownOneTrade ==
    (pc = "done" /\ Len(trades) <= 1) => results.max_drawdown = <<0, 1>>

\* C16 witness: the call has returned max_drawdown 0 for a single losing trade.
C16_Witness ==
    /\ pc = "done" /\ Len(trades) = 1
    /\ trades[1].Exit_Price < trades[1].Entry_Price
    /\ results.max_drawdown = <<0, 1>>

\* C18 (ordered, non-overlapping trades): in the trade list, while it is built
\* and as returned, entry dates strictly ascend and each trade is entered no
\* earlier than the trade before it was closed.
C18_OrderedTrades ==
    /\ \A k \in 1..(Len(trades) - 1) :
          /\ trades[k].Entry_Date < trades[k + 1].Entry_Date
          /\ trades[k].Exit_Date <= trades[k + 1].Entry_Date
    /\ pc = "done" =>
          \A k \in 1..(Len(results.trades) - 1) :
              /\ results.trades[k].Entry_Date < results.trades[k + 1].Entry_Date
              /\ results.trades[k].Exit_Date <= results.trades[k + 1].Entry_Date

\* C18 witness: a returned list of two or more trades, the second entered on
\* the row that closed the first.
C18_Witness ==
    /\ pc = "done" /\ Len(results.trades) >= 2
    /\ results.trades[2].Entry_Date = results.trades[1].Exit_Date
    /\ results.trades[1].Exit_Date > results.trades[1].Entry_Date

\* C19 (reverse-crossover policy): under the "Reverse Crossover" policy a row
\* processed while Holding closes the position exactly when it carries a
\* bearish cross, at the row's close and date with exit type Reverse
\* Crossover; price levels and elapsed days close nothing.
C19_ReversePolicy ==
    [][(ScanStep /\ in_position /\ exit_strategy = REVERSE) =>
          /\ Exited <=> NextRow.position = -1
          /\ ~Exited => trades' = trades
          /\ Exited =>
                /\ LastTrade(trades').Exit_Type = "Reverse Crossover"
                /\ LastTrade(trades').Exit_Price = NextRow.Close
                /\ LastTrade(trades').Exit_Date = NextRow.date
                /\ LastTrade(trades').Entry_Date = entry_date]_vars

\* C19 witness: under the "Reverse Crossover" policy the engine still holds
\* the position of the first row after a row beyond the take-profit level and
\* the timeout and after a row beyond the stop-loss level.
C19_Witness ==
    /\ exit_strategy = REVERSE /\ pc = "scan" /\ in_position /\ i >= 3
    /\ entry_date = signals_df[1].date
    /\ \E r \in 2..i :
          /\ signals_df[r].Close * 100 >= entry_price * (100 + take_profit)
          /\ signals_df[r].date - entry_date >= trade_timeout_days
    /\ \E r \in 2..i :
          signals_df[r].Close * 100 <= entry_price * (100 - stop_loss)

\* a row whose date is not strictly later than the date of the row before it
NonMonotonic ==
    \E k \in 2..Len(signals_df) : signals_df[k].date <= signals_df[k - 1].date

\* C12 (non-monotonic dates rejected): on a table with a row dated not
\* strictly later than the row before it, run_backtest records no trade and
\* does not return a result.
C12_RejectsNonMonotonic ==
    NonMonotonic => (trades = <<>> /\ results = NotReturned)

\* the parameters C13 calls a configuration error
BadConfig ==
    \/ exit_strategy \notin {TPSL, REVERSE}
    \/ take_profit <= 0
    \/ stop_loss <= 0

\* C13 (configuration errors fail fast): with an unknown exit policy or a
\* non-positive take-profit or stop-loss, run_backtest processes no row,
\* records no trade and does not return a result.
C13_FailsFast ==
    BadConfig => (i = 0 /\ trades = <<>> /\ results = NotReturned)

\* the scenario without a bearish cross and without a timeout in reach
ScenarioPlain ==
    /\ trade_timeout_days = 60
    /\ \A r \in 1..Len(signals_df) : signals_df[r].position # -1

\* C14 as claimed: in the scenario the engine enters on index 1 at 102 and
\* the position is open when index 5 is processed and still open after it.
C14_OpenAtIndex5 ==
    (ScenarioPlain /\ pc = "scan" /\ i >= 2) =>
        /\ in_position /\ entry_price = 102 /\ trades = <<>>

\* C14 (concrete scenario, amended): the engine enters on index 1 at 102 and
\* holds through index 2 unless a bearish cross or the timeout closes the
\* position there at 98; index 3 (close 91, at or below 102 * 0.95) closes
\* a position still open with exit type Stop-Loss at 91; from then on the
\* engine is Flat, index 5 records no take-profit exit, and the run returns
\* exactly one trade, entered at 102.
C14_StoppedOutAtIndex3 ==
    /\ i < 2 => (~in_position /\ trades = <<>>)
    /\ i = 2 => (in_position /\ entry_price = 102 /\ trades = <<>>
                    /\ entry_date = signals_df[2].date)
    /\ i = 3 =>
          IF signals_df[3].position = -1
                \/ signals_df[3].date - signals_df[2].date >= trade_timeout_days
          THEN ~in_position /\ Len(trades) = 1 /\ trades[1].Exit_Price = 98
          ELSE in_position /\ entry_price = 102 /\ trades = <<>>
    /\ i >= 4 =>
          /\ ~in_position /\ Len(trades) = 1
          /\ trades[1].Entry_Price = 102
          /\ trades[1].Entry_Date = signals_df[2].date
          /\ trades[1].Exit_Type # "Take-Profit"
          /\ trades[1].Exit_Type # "End of Backtest"
          /\ trades[1].Exit_Price \in {98, 91}
          /\ trades[1].Exit_Price = 91 =>
                /\ trades[1].Exit_Type = "Stop-Loss"
                /\ trades[1].Exit_Date = signals_df[4].date
    /\ pc = "done" => results.total_trades = 1

\* C14 witness: index 5 has been processed in the scenario without a bearish
\* cross or a timeout; the engine is Flat and the one trade is the stop-loss
\* exit at 91.
C14_Witness ==
    /\ ScenarioPlain /\ pc = "scan" /\ i = 6 /\ ~in_position
    /\ Len(trades) = 1 /\ trades[1].Exit_Type = "Stop-Loss"
    /\ trades[1].Entry_Price = 102 /\ trades[1].Exit_Price = 91

\* C20 (exit strictly after entry): every trade whose exit type is not End
\* of Backtest has an exit date strictly later than its entry date; a trade
\* with exit date equal to entry date is an End of Backtest trade entered on
\* the last row, and its P&L is 0. Whatever the parameters are.
C20_ExitAfterEntry ==
    \A k \in 1..Len(trades) :
        /\ trades[k].Exit_Date >= trades[k].Entry_Date
        /\ trades[k].Exit_Type # "End of Backtest" =>
              trades[k].Exit_Date > trades[k].Entry_Date
        /\ trades[k].Exit_Date = trades[k].Entry_Date =>
              /\ trades[k].Exit_Type = "End of Backtest"
              /\ trades[k].Entry_Date = LastRow.date
              /\ k = Len(trades)
              /\ trades[k].PnL = <<0, 1>>
              /\ pc = "done" => results.trades[k].PnL = <<0, 1>>

\* C20 witness: a returned list with a trade closed on the row after its
\* entry although the entry row itself was at the take-profit level, and an
\* End of Backtest trade entered on the last row.
C20_Witness ==
    /\ pc = "done" /\ Len(trades) >= 2 /\ take_profit = 0
    /\ exit_strategy = TPSL
    /\ trades[1].Exit_Type = "Take-Profit"
    /\ trades[1].Exit_Date > trades[1].Entry_Date
    /\ LastTrade(trades).Exit_Type = "End of Backtest"
    /\ LastTrade(trades).Exit_Date = LastTrade(trades).Entry_Date

\* the tickers among the first n whose download has a row in the window
RECURSIVE WithWindow(_)
WithWindow(n) ==
    IF n = 0 THEN <<>>
    ELSE IF Window(fetch_data(tickers[n])) # <<>>
         THEN Append(WithWindow(n - 1), n)
         ELSE WithWindow(n - 1)

\* C17 (batch failure isolation): the batch loop is never aborted, and after
\* each ticker the collected rows are exactly one row, in order, for each
\* ticker taken so far whose download has a row in the backtest window; a
\* ticker whose fetch failed or whose series or window is empty has no row.
C17_BatchIsolation ==
    /\ batch_pc # "raised"
    /\ batch_pc # "idle" =>
          [k \in DOMAIN all_results |-> all_results[k].ticker]
              = WithWindow(batch_i)

\* C21 (same-row re-entry): a row on which an exit fires and which carries a
\* bullish cross leaves the engine Holding a new position entered on that row
\* at its close, which are the exit date and exit price of the trade just
\* closed; a row on which an exit fires and which carries no bullish cross
\* leaves the engine Flat. In the trade list a trade entered on the exit date
\* of the trade before it is entered at that trade's exit price.
C21_SameRowReentry ==
    [][(ScanStep /\ in_position /\ Exited) =>
          /\ NextRow.position = 1 =>
                /\ in_position'
                /\ entry_date' = NextRow.date
                /\ entry_price' = NextRow.Close
                /\ entry_date' = LastTrade(trades').Exit_Date
                /\ entry_price' = LastTrade(trades').Exit_Price
          /\ NextRow.position # 1 => ~in_position'
          /\ \A k \in 1..(Len(trades') - 1) :
                trades'[k + 1].Entry_Date = trades'[k].Exit_Date =>
                    trades'[k + 1].Entry_Price = trades'[k].Exit_Price]_vars

\* C21 witness: the call has returned two trades, the second entered on the
\* row that closed the first by take-profit, stop-loss or timeout, at the
\* same price.
C21_Witness ==
    /\ pc = "done" /\ Len(trades) >= 2
    /\ trades[1].Exit_Type \in {"Take-Profit", "Stop-Loss", "Timeout"}
    /\ trades[2].Entry_Date = trades[1].Exit_Date
    /\ trades[2].Entry_Price = trades[1].Exit_Price
    /\ trades[2].Exit_Date > trades[2].Entry_Date

\* C22 (dashboard session-state consistency): whenever the script has ended
\* or has come to the rendering, run_mode 'single' goes with the three
\* single_* keys and run_mode 'batch' with batch_results_df,
\* top_performers_data and worst_performers_data, and the rendering never
\* reads a key that is not there.
C22_SessionConsistent ==
    /\ app_pc # "error"
    /\ app_pc \in {"idle", "render"} => KeysRead \subseteq session_keys

====
